---- MODULE Spec2Model ----
(***************************************************************************)
(* Model of MLModel.ipynb: a notebook that reads a dataset from S3, splits *)
(* it into train/test, fits a univariate linear regression, scores it,     *)
(* pickles the model to S3, later reloads it, scores it on new data and    *)
(* retrains.  The cells are run top to bottom; a cell that raises stops    *)
(* the run.  Cells that only plot or print already-held values change no   *)
(* state and are not modelled as steps.                                    *)
(*                                                                         *)
(* A row is <<MeanDailyTemperature, IceCreamSales>>; a dataframe is a      *)
(* sequence of rows.  Floats are modelled as exact rationals <<num, den>>  *)
(* in lowest terms with den > 0.                                           *)
(***************************************************************************)
EXTENDS Integers, Sequences, FiniteSets, TLC

\* ------------------------------------------------------------------ bounds
MaxRows1 == 3
MaxRows2 == 2
MaxSplitRows == 4
MaxSeed == 2
MaxEntropy == 1

\* ------------------------------------------------------- program constants
TRAIN_FRAC == <<7, 10>>
SEED == 55
KeyV1 == "params/v1/params.pkl"
KeyV2 == "params/v2/params.pkl"
DATA1 == "s3://sfc-mt-sagemaker-demo/data1/"
DATA2 == "s3://sfc-mt-sagemaker-demo/data2/"
Keys == {KeyV1, KeyV2}

\* ------------------------------------------------------------- data values
Temperatures == {0, 1}
Sales == {0, 1}
Rows == Temperatures \X Sales

RECURSIVE SeqsUpTo(_, _)
SeqsUpTo(S, n) ==
    IF n = 0 THEN {<<>>}
    ELSE LET shorter == SeqsUpTo(S, n - 1)
         IN  shorter \cup {Append(s, r) : s \in {t \in shorter : Len(t) = n - 1}, r \in S}

\* ------------------------------------------------------ rational arithmetic
Abs(n) == IF n < 0 THEN -n ELSE n

RECURSIVE GCD(_, _)
GCD(a, b) == IF b = 0 THEN a ELSE GCD(b, a % b)

NaN == <<0, 0>>
None == <<-1, 0>>

\* A zero denominator is a float NaN, which every operation propagates.
Norm(n, d) ==
    LET g == GCD(Abs(n), Abs(d))
        s == IF d < 0 THEN -1 ELSE 1
    IN  IF d = 0 THEN NaN ELSE <<(s * n) \div g, (s * d) \div g>>

RAdd(p, q) == Norm(p[1] * q[2] + q[1] * p[2], p[2] * q[2])
RSub(p, q) == Norm(p[1] * q[2] - q[1] * p[2], p[2] * q[2])
RMul(p, q) == Norm(p[1] * q[1], p[2] * q[2])
RDiv(p, q) == Norm(p[1] * q[2], p[2] * q[1])
RInt(n) == <<n, 1>>

RECURSIVE SumSeq(_)
SumSeq(s) == IF s = <<>> THEN 0 ELSE s[1] + SumSeq(Tail(s))

RECURSIVE RSumSeq(_)
RSumSeq(s) == IF s = <<>> THEN RInt(0) ELSE RAdd(s[1], RSumSeq(Tail(s)))

\* ------------------------------------------------------- dataframe (polars)
Column(df, c) == [i \in 1..Len(df) |-> df[i][c]]

Lcg(s) == (5 * s + 3) % 64

Swap(p, i, j) == [p EXCEPT ![i] = p[j], ![j] = p[i]]

RECURSIVE Shuffle(_, _, _)
Shuffle(p, i, s) ==
    IF i <= 1 THEN p
    ELSE Shuffle(Swap(p, i, ((s \div 4) % i) + 1), i - 1, Lcg(s))

RandIndex(n, seed) == Shuffle([i \in 1..n |-> i], n, Lcg(seed % 64))

RngSeedUnseeded(seed, entropy) == entropy

\* The generator is seeded with the seed the call passes; only a call that
\* passes none draws its seed from the system's entropy.
RngSeed(seed, entropy) == IF seed \in Nat THEN seed ELSE entropy

Sample(df, fraction, seed, entropy) ==
    LET n    == (fraction[1] * Len(df)) \div fraction[2]
        perm == RandIndex(Len(df), RngSeed(seed, entropy))
    IN  [i \in 1..n |-> df[perm[i]]]

OnFirstColumn(l, r) == l[1] = r[1]

OnAllColumns(l, r) == l = r

AntiJoin(left, right) ==
    SelectSeq(left, LAMBDA l : \A i \in 1..Len(right) : ~OnAllColumns(l, right[i]))

\* ------------------------------------------------------ model (scikit-learn)
NoModel == [coef_ |-> None, intercept_ |-> None]

Fit(x, y) ==
    LET n   == Len(x)
        sx  == SumSeq(x)
        sy  == SumSeq(y)
        sxy == SumSeq([i \in 1..n |-> x[i] * y[i]])
        sxx == SumSeq([i \in 1..n |-> x[i] * x[i]])
        d   == n * sxx - sx * sx
        slope == IF d = 0 THEN RInt(0) ELSE Norm(n * sxy - sx * sy, d)
    IN  [coef_ |-> slope,
         intercept_ |-> RDiv(RSub(RInt(sy), RMul(slope, RInt(sx))), RInt(n))]

Predict(model, x) ==
    [i \in 1..Len(x) |-> RAdd(RMul(model.coef_, RInt(x[i])), model.intercept_)]

R2Score(y, y_pred) ==
    LET n     == Len(y)
        sy    == SumSeq(y)
        syy   == SumSeq([i \in 1..n |-> y[i] * y[i]])
        sstot == Norm(n * syy - sy * sy, n)
        res   == [i \in 1..n |-> RSub(RInt(y[i]), y_pred[i])]
        ssres == RSumSeq([i \in 1..n |-> RMul(res[i], res[i])])
    IN  IF n < 2 THEN NaN
        ELSE IF sstot[1] = 0 THEN (IF ssres[1] = 0 THEN RInt(1) ELSE RInt(0))
        ELSE RSub(RInt(1), RDiv(ssres, sstot))

\* ------------------------------------------------------------------- pickle
Absent == <<>>

Pickle(model) ==
    <<model.coef_[1], model.coef_[2], model.intercept_[1], model.intercept_[2]>>

UnpickleSwapped(blob) ==
    [coef_ |-> <<blob[3], blob[4]>>, intercept_ |-> <<blob[1], blob[2]>>]

Unpickle(blob) ==
    [coef_ |-> <<blob[1], blob[2]>>, intercept_ |-> <<blob[3], blob[4]>>]

\* -------------------------------------------------------------------- state
VARIABLES
    pc,            \* the cell about to run, "done" or "aborted"
    error,         \* the exception that stopped the run, or NoError
    out,           \* what the cleanup cell printed
    s3,            \* the bucket: key -> blob
    df1, df_train1, df_test1, model1, r2_1, r2_test1,
    loaded_model, df2, r2_loaded,
    df_train2, df_test2, model2, r2_2, r2_test2,
    ds, frac, seed, execA, execB   \* the split taken on its own, executed twice

firstVars  == <<df1, df_train1, df_test1, model1, r2_1, r2_test1>>
secondVars == <<loaded_model, df2, r2_loaded, df_train2, df_test2, model2, r2_2, r2_test2>>
splitVars  == <<ds, frac, seed, execA, execB>>
runVars    == <<pc, error, out, s3>>
vars       == <<runVars, firstVars, secondVars, splitVars>>

NoFrame == <<>>
\* An exception: its type, the call that raised it and what the call was on;
\* cell is the cell the traceback names once the exception stops the run.
NoError == [type |-> "none", op |-> "none", key |-> "none", cell |-> "none"]
ClientError(op, key) == [type |-> "ClientError", op |-> op, key |-> key, cell |-> "none"]
IOError(op, key) == [type |-> "IOError", op |-> op, key |-> key, cell |-> "none"]
ValueError(op, key) == [type |-> "ValueError", op |-> op, key |-> key, cell |-> "none"]

PriorModel == [coef_ |-> RInt(2), intercept_ |-> RInt(-1)]
PriorBlobs == {Absent, Pickle(PriorModel)}

DataSets1 == SeqsUpTo(Rows, MaxRows1)
DataSets2 == SeqsUpTo(Rows, MaxRows2)

\* The cells in notebook order.
NextCell(cell) ==
    CASE cell = "cleanup" -> "read1"
      [] cell = "read1"   -> "split1"
      [] cell = "split1"  -> "train1"
      [] cell = "train1"  -> "score1"
      [] cell = "score1"  -> "test1"
      [] cell = "test1"   -> "save1"
      [] cell = "save1"   -> "load"
      [] cell = "load"    -> "read2"
      [] cell = "read2"   -> "compare"
      [] cell = "compare" -> "split2"
      [] cell = "split2"  -> "train2"
      [] cell = "train2"  -> "test2"
      [] cell = "test2"   -> "save2"
      [] cell = "save2"   -> "done"
      [] OTHER            -> cell

CellOrder ==
    <<"cleanup", "read1", "split1", "train1", "score1", "test1", "save1", "load",
      "read2", "compare", "split2", "train2", "test2", "save2", "done">>

CellIndex(cell) == CHOOSE i \in 1..Len(CellOrder) : CellOrder[i] = cell

\* The cell has run to its end in this run.
Ran(cell) == CellIndex(IF pc = "aborted" THEN error.cell ELSE pc) > CellIndex(cell)

RaiseIgnored(e) == pc' = NextCell(pc) /\ error' = [e EXCEPT !.cell = pc]

\* An uncaught exception stops the run at the failing cell.
Raise(e) == pc' = "aborted" /\ error' = [e EXCEPT !.cell = pc]

Proceed == pc' = NextCell(pc) /\ error' = error

\* ------------------------------------------------------------ object store
DeleteObject(store, key) == [store EXCEPT ![key] = Absent]

UploadFileobjV1(store, key, blob) == [store EXCEPT ![KeyV1] = blob]

UploadFileobj(store, key, blob) == [store EXCEPT ![key] = blob]

PipelineInit ==
    /\ pc = "cleanup"
    /\ error = NoError
    /\ out = <<>>
    /\ s3 \in [Keys -> PriorBlobs]
    /\ df1 = NoFrame /\ df_train1 = NoFrame /\ df_test1 = NoFrame
    /\ model1 = NoModel /\ r2_1 = None /\ r2_test1 = None
    /\ loaded_model = NoModel /\ df2 = NoFrame /\ r2_loaded = None
    /\ df_train2 = NoFrame /\ df_test2 = NoFrame
    /\ model2 = NoModel /\ r2_2 = None /\ r2_test2 = None

SplitIdle ==
    /\ ds = NoFrame /\ frac = TRAIN_FRAC /\ seed = SEED
    /\ execA = [done |-> FALSE, train |-> NoFrame, test |-> NoFrame, model |-> NoModel]
    /\ execB = [done |-> FALSE, train |-> NoFrame, test |-> NoFrame, model |-> NoModel]

Init == PipelineInit /\ SplitIdle

\* ------------------------------------------------------------- cleanup cell
CleanupStoreSeparateTry(store, failing) ==
    IF failing = KeyV1 THEN DeleteObject(store, KeyV2)
    ELSE IF failing = KeyV2 THEN DeleteObject(store, KeyV1)
    ELSE DeleteObject(DeleteObject(store, KeyV1), KeyV2)

\* One try block: the first delete_object that raises ends the block.
CleanupStore(store, failing) ==
    IF failing = KeyV1 THEN store
    ELSE IF failing = KeyV2 THEN DeleteObject(store, KeyV1)
    ELSE DeleteObject(DeleteObject(store, KeyV1), KeyV2)

Printed(e) == <<[text |-> "exception", exc |-> e],
                [text |-> "Deletion failed, possibly no files", exc |-> NoError]>>

CleanupReraise(e) == out' = out /\ Raise(e)

\* except Exception as e: print(e); print('Deletion failed, possibly no files')
CleanupExcept(e) == out' = out \o Printed(e) /\ Proceed

Cleanup ==
    /\ pc = "cleanup"
    /\ \/ /\ s3' = CleanupStore(s3, "none")
          /\ out' = out
          /\ Proceed
       \/ \E failing \in Keys :
              /\ s3' = CleanupStore(s3, failing)
              /\ CleanupExcept(ClientError("delete_object", failing))
    /\ UNCHANGED <<firstVars, secondVars, splitVars>>

\* -------------------------------------------------------------- first model
\* df1 = pl.read_parquet(DATA1): whatever the location holds when it is read.
ReadData1 ==
    /\ pc = "read1"
    /\ \/ \E d \in DataSets1 : df1' = d /\ Proceed
       \/ df1' = df1 /\ Raise(IOError("read_parquet", DATA1))
    /\ UNCHANGED <<out, s3, df_train1, df_test1, model1, r2_1, r2_test1,
                   secondVars, splitVars>>

\* df.sample(fraction, with_replacement=False, shuffle=True, seed), then
\* df.join(train, on=df.columns, how='anti')
Split(df, fraction, sd, entropy) ==
    LET train == Sample(df, fraction, sd, entropy)
    IN  [train |-> train, test |-> AntiJoin(df, train)]

Split1 ==
    /\ pc = "split1"
    /\ \E entropy \in 0..MaxEntropy :
           LET s == Split(df1, TRAIN_FRAC, SEED, entropy)
           IN  df_train1' = s.train /\ df_test1' = s.test
    /\ Proceed
    /\ UNCHANGED <<out, s3, df1, model1, r2_1, r2_test1, secondVars, splitVars>>

\* model.fit(x, y) on the two columns of a frame; raises on an empty frame.
FitFrame(df) == Fit(Column(df, 1), Column(df, 2))

\* r2_score(y, model.predict(x)) on the two columns of a frame.
ScoreFrame(model, df) == R2Score(Column(df, 2), Predict(model, Column(df, 1)))

Train1 ==
    /\ pc = "train1"
    /\ IF Len(df_train1) = 0
       THEN model1' = model1 /\ Raise(ValueError("fit", "model1"))
       ELSE model1' = FitFrame(df_train1) /\ Proceed
    /\ UNCHANGED <<out, s3, df1, df_train1, df_test1, r2_1, r2_test1,
                   secondVars, splitVars>>

Score1 ==
    /\ pc = "score1"
    /\ r2_1' = ScoreFrame(model1, df_train1)
    /\ Proceed
    /\ UNCHANGED <<out, s3, df1, df_train1, df_test1, model1, r2_test1,
                   secondVars, splitVars>>

Test1 ==
    /\ pc = "test1"
    /\ IF Len(df_test1) = 0
       THEN r2_test1' = r2_test1 /\ Raise(ValueError("predict", "model1"))
       ELSE r2_test1' = ScoreFrame(model1, df_test1) /\ Proceed
    /\ UNCHANGED <<out, s3, df1, df_train1, df_test1, model1, r2_1,
                   secondVars, splitVars>>

\* pickle.dump(model1, buffer); s3.upload_fileobj(buffer, BUCKET, 'params/v1/params.pkl')
Save1 ==
    /\ pc = "save1"
    /\ \/ s3' = UploadFileobj(s3, KeyV1, Pickle(model1)) /\ Proceed
       \/ s3' = s3 /\ Raise(ClientError("upload_fileobj", KeyV1))
    /\ UNCHANGED <<out, firstVars, secondVars, splitVars>>

\* ------------------------------------------------------------- second model
\* s3.download_fileobj(BUCKET, 'params/v1/params.pkl', download); pickle.load(download)
LoadModel ==
    /\ pc = "load"
    /\ \/ /\ s3[KeyV1] # Absent
          /\ loaded_model' = Unpickle(s3[KeyV1])
          /\ Proceed
       \/ loaded_model' = loaded_model /\ Raise(ClientError("download_fileobj", KeyV1))
    /\ UNCHANGED <<out, s3, firstVars, df2, r2_loaded, df_train2, df_test2,
                   model2, r2_2, r2_test2, splitVars>>

ReadData2 ==
    /\ pc = "read2"
    /\ \/ \E d \in DataSets2 : df2' = d /\ Proceed
       \/ df2' = df2 /\ Raise(IOError("read_parquet", DATA2))
    /\ UNCHANGED <<out, s3, firstVars, loaded_model, r2_loaded, df_train2,
                   df_test2, model2, r2_2, r2_test2, splitVars>>

Compare ==
    /\ pc = "compare"
    /\ IF Len(df2) = 0
       THEN r2_loaded' = r2_loaded /\ Raise(ValueError("predict", "loaded_model"))
       ELSE r2_loaded' = ScoreFrame(loaded_model, df2) /\ Proceed
    /\ UNCHANGED <<out, s3, firstVars, loaded_model, df2, df_train2, df_test2,
                   model2, r2_2, r2_test2, splitVars>>

\* The retraining cells follow the comparison unconditionally.
Split2 ==
    /\ pc = "split2"
    /\ \E entropy \in 0..MaxEntropy :
           LET s == Split(df2, TRAIN_FRAC, SEED, entropy)
           IN  df_train2' = s.train /\ df_test2' = s.test
    /\ Proceed
    /\ UNCHANGED <<out, s3, firstVars, loaded_model, df2, r2_loaded,
                   model2, r2_2, r2_test2, splitVars>>

Train2 ==
    /\ pc = "train2"
    /\ IF Len(df_train2) = 0
       THEN model2' = model2 /\ r2_2' = r2_2 /\ Raise(ValueError("fit", "model2"))
       ELSE /\ model2' = FitFrame(df_train2)
            /\ r2_2' = ScoreFrame(model2', df_train2)
            /\ Proceed
    /\ UNCHANGED <<out, s3, firstVars, loaded_model, df2, r2_loaded,
                   df_train2, df_test2, r2_test2, splitVars>>

Test2 ==
    /\ pc = "test2"
    /\ IF Len(df_test2) = 0
       THEN r2_test2' = r2_test2 /\ Raise(ValueError("predict", "model2"))
       ELSE r2_test2' = ScoreFrame(model2, df_test2) /\ Proceed
    /\ UNCHANGED <<out, s3, firstVars, loaded_model, df2, r2_loaded,
                   df_train2, df_test2, model2, r2_2, splitVars>>

\* pickle.dump(model2, buffer); s3.upload_fileobj(buffer, BUCKET, 'params/v2/params.pkl')
Save2 ==
    /\ pc = "save2"
    /\ \/ s3' = UploadFileobj(s3, KeyV2, Pickle(model2)) /\ Proceed
       \/ s3' = s3 /\ Raise(ClientError("upload_fileobj", KeyV2))
    /\ UNCHANGED <<out, firstVars, secondVars, splitVars>>

Next ==
    \/ Cleanup
    \/ ReadData1
    \/ Split1
    \/ Train1
    \/ Score1
    \/ Test1
    \/ Save1
    \/ LoadModel
    \/ ReadData2
    \/ Compare
    \/ Split2
    \/ Train2
    \/ Test2
    \/ Save2

Spec == Init /\ [][Next]_vars

\* ------------------------------------------- the split, executed on its own
Fractions == {<<k, 10>> : k \in 1..9}
Seeds == (0..MaxSeed) \cup {SEED}
SplitDataSets == SeqsUpTo(Rows, MaxSplitRows)
NotExecuted == [done |-> FALSE, train |-> NoFrame, test |-> NoFrame, model |-> NoModel]

PipelineIdle ==
    /\ pc = "idle"
    /\ error = NoError
    /\ out = <<>>
    /\ s3 = [k \in Keys |-> Absent]
    /\ df1 = NoFrame /\ df_train1 = NoFrame /\ df_test1 = NoFrame
    /\ model1 = NoModel /\ r2_1 = None /\ r2_test1 = None
    /\ loaded_model = NoModel /\ df2 = NoFrame /\ r2_loaded = None
    /\ df_train2 = NoFrame /\ df_test2 = NoFrame
    /\ model2 = NoModel /\ r2_2 = None /\ r2_test2 = None

SplitInit ==
    /\ PipelineIdle
    /\ ds \in SplitDataSets
    /\ frac \in Fractions
    /\ seed \in Seeds
    /\ execA = NotExecuted
    /\ execB = NotExecuted

\* One execution of the split cell and of the fit that follows it.
Executed(entropy) ==
    LET s == Split(ds, frac, seed, entropy)
    IN  [done |-> TRUE, train |-> s.train, test |-> s.test,
         model |-> IF Len(s.train) = 0 THEN NoModel ELSE FitFrame(s.train)]

ExecSplitA ==
    /\ ~execA.done
    /\ \E entropy \in 0..MaxEntropy : execA' = Executed(entropy)
    /\ UNCHANGED <<runVars, firstVars, secondVars, ds, frac, seed, execB>>

ExecSplitB ==
    /\ ~execB.done
    /\ \E entropy \in 0..MaxEntropy : execB' = Executed(entropy)
    /\ UNCHANGED <<runVars, firstVars, secondVars, ds, frac, seed, execA>>

SplitNext ==
    \/ ExecSplitA
    \/ ExecSplitB

SplitSpec == SplitInit /\ [][SplitNext]_vars

\* ------------------------------------------------------------------ helpers
RowSet(df) == {df[i] : i \in 1..Len(df)}
Count(df, r) == Cardinality({i \in 1..Len(df) : df[i] = r})

\* The adequacy threshold the documentation leaves to the reader: R2 >= 1/2.
Adequate(r2) == r2[2] > 0 /\ 2 * r2[1] >= r2[2]

TypeOK == pc \in {CellOrder[i] : i \in 1..Len(CellOrder)} \cup {"aborted", "idle"}

\* =================================================================== claims

C2_SplitTruePartition ==
    execA.done =>
        /\ Len(execA.train) + Len(execA.test) = Len(ds)
        /\ \A r \in Rows : Count(execA.train, r) + Count(execA.test, r) = Count(ds, r)

\* C3: the retraining cells run only when the loaded model scored below the
\* adequacy threshold on the new dataset.
C3_RetrainOnlyIfInadequate ==
    (pc # "idle" /\ Ran("split2")) => ~Adequate(r2_loaded)

\* C4: the model loaded from params/v1/params.pkl has the slope and the
\* intercept of the model this run fitted and uploaded there.
C4_SaveLoadRoundTrip ==
    (pc # "idle" /\ Ran("load")) => loaded_model = model1

C4_Witness ==
    /\ pc = "read2"
    /\ out # <<>>
    /\ loaded_model = model1
    /\ model1 \notin {NoModel, PriorModel}
    /\ model1.coef_ # model1.intercept_

\* C5: a step of the cleanup cell always hands over to the cell that reads
\* the first dataset, with no exception pending; a deletion that raised is
\* printed.
C5_CleanupBestEffort ==
    [][pc = "cleanup" =>
          /\ pc' = "read1"
          /\ error' = NoError
          /\ \/ out' = out /\ \A k \in Keys : s3'[k] = Absent
             \/ \E k \in Keys : out' = out \o Printed(ClientError("delete_object", k))]_vars

C5_Witness ==
    /\ pc = "read1"
    /\ error = NoError
    /\ out = Printed(ClientError("delete_object", KeyV1))

\* C6: once an exception has stopped the run, no cell runs and nothing
\* changes: the failed call is not retried and the bucket keeps its content.
C6_FailureAborts ==
    [][error # NoError => (pc = "aborted" /\ UNCHANGED vars)]_vars

C6_Witness ==
    /\ pc = "aborted"
    /\ error = [ClientError("upload_fileobj", KeyV2) EXCEPT !.cell = "save2"]
    /\ s3[KeyV1] = Pickle(model1)
    /\ s3[KeyV2] # Pickle(model2)

\* C7: the first model is uploaded only when its R2 on the training set and
\* on the test set were found adequate.
C7_SavedOnlyIfAdequate ==
    (pc # "idle" /\ Ran("save1")) => (Adequate(r2_1) /\ Adequate(r2_test1))

\* C8: two executions of the split on the same dataset, fraction and seed
\* give the same train and test subsets, and so the same fitted model.
C8_SplitDeterministic ==
    (execA.done /\ execB.done) => execA = execB

C8_Witness ==
    /\ execA.done /\ execB.done
    /\ seed = SEED /\ frac = TRAIN_FRAC
    /\ Len(execA.train) >= 2 /\ Len(execA.test) >= 1
    /\ execA.train # SubSeq(ds, 1, Len(execA.train))

\* C9: when the run completes, params/v1/params.pkl holds the model fitted
\* on the training split of dataset 1 and params/v2/params.pkl the model
\* fitted on the training split of dataset 2.
C9_EachSaveItsOwnKey ==
    pc = "done" =>
        /\ s3[KeyV1] = Pickle(FitFrame(df_train1))
        /\ s3[KeyV2] = Pickle(FitFrame(df_train2))
        /\ df_train1 = Sample(df1, TRAIN_FRAC, SEED, 0)
        /\ df_train2 = Sample(df2, TRAIN_FRAC, SEED, 0)

C9_Witness ==
    /\ pc = "done"
    /\ out = Printed(ClientError("delete_object", KeyV1))
    /\ s3[KeyV1] # s3[KeyV2]
    /\ Pickle(PriorModel) \notin {s3[KeyV1], s3[KeyV2]}

\* C10: in the cleanup cell a failed deletion of v1 leaves the bucket as it
\* was, a failed deletion of v2 has deleted v1 only, and no printed failure
\* means both keys are gone; afterwards only the final upload changes v2.
C10_CleanupOrder ==
    [][/\ pc = "cleanup" =>
            /\ out' = out \o Printed(ClientError("delete_object", KeyV1)) => s3' = s3
            /\ out' = out \o Printed(ClientError("delete_object", KeyV2)) =>
                   s3' = [s3 EXCEPT ![KeyV1] = Absent]
            /\ out' = out => \A k \in Keys : s3'[k] = Absent
       /\ pc \notin {"cleanup", "save2"} => s3'[KeyV2] = s3[KeyV2]]_vars

C10_Witness ==
    /\ pc = "save2"
    /\ out = Printed(ClientError("delete_object", KeyV1))
    /\ s3[KeyV2] = Pickle(PriorModel)

====
